---- MODULE Spec2Model ----
(***************************************************************************)
(* liveurls: rate-limited, bounded-concurrency probing of a URL list.      *)
(*                                                                         *)
(* The repository holds three programs, selected here by `variant`:        *)
(*   "basic"    src/liveurls.go lines 1-152   (no signal handling)         *)
(*   "signal"   src/liveurls.go lines 153-338 (signal-aware, status 200)   *)
(*   "classify" src/unnamed/part_000          (signal-aware, by status)    *)
(*                                                                         *)
(* Goroutines are modelled as processes with a program counter each:       *)
(*   dPc   the goroutine running processURLs (and close(outputChan))       *)
(*   pPc   one Prober goroutine per endpoint (go func(u) {...checkURL})    *)
(*   cPc   the collector goroutine (for ... range outputChan, append)      *)
(*   wPc   the completion-waiting goroutine (for range outputChan {})      *)
(*   mPc   main                                                            *)
(* Endpoints are identified by their position 1..n in the input list.      *)
(* Time is counted in ticker periods (time.Second / requestsPerSecond).     *)
(* File-system errors (os.Create, WriteString, Flush failing) and what is  *)
(* printed are outside the model.                                          *)
(***************************************************************************)
EXTENDS Integers, Sequences, FiniteSets, TLC

\* ---------------------------------------------------------------- bounds
\* The longest endpoint list of the basic program, and of the two
\* signal-aware programs (whose state spaces are far larger).
MaxUrls == 3
MaxUrlsSignal == 2
MaxRate == 2
MaxSignals == 2

\* The smallest rate in the model: -1 and 0 are the invalid settings of -d.
MinRate == 0 - 1

\* HTTP status codes a HEAD request may return in the model; ErrTransport
\* stands for err != nil (no response).
ErrTransport == 0
StatusOK == 200
StatusCodes == {200, 204, 404}
Outcomes == StatusCodes \cup {ErrTransport}

Url == 1..(IF MaxUrls > MaxUrlsSignal THEN MaxUrls ELSE MaxUrlsSignal)

\* ---------------------------------------------------------------- strings
\* A string is a sequence of one-character strings.
EmptyString == <<>>
Str2xx == <<"2", "x", "x">>
Str4xx == <<"4", "x", "x">>
Str2x == <<"2", "x">>
Strxxx == <<"x", "x", "x">>
Str20x == <<"2", "0", "x">>

\* The values of the --only flag in the model, already split at "," and
\* trimmed (strings.Split, strings.TrimSpace): a sequence of parts.  The
\* empty sequence is the empty flag value.
OnlyOptions ==
    { <<>>, <<Str2xx>>, <<Str2x, Strxxx, Str20x, Str4xx>> }

Digits == {"0", "1", "2", "3", "4", "5", "6", "7", "8", "9"}

\* strconv.Atoi on a one-character string: (value, ok).
Atoi(c) ==
    IF c \in Digits
    THEN [ok |-> TRUE,
          val |-> CASE c = "0" -> 0 [] c = "1" -> 1 [] c = "2" -> 2
                    [] c = "3" -> 3 [] c = "4" -> 4 [] c = "5" -> 5
                    [] c = "6" -> 6 [] c = "7" -> 7 [] c = "8" -> 8
                    [] OTHER -> 9]
    ELSE [ok |-> FALSE, val |-> 0]

\* strings.HasSuffix(part, "xx")
HasSuffixXX(part) ==
    /\ Len(part) >= 2
    /\ part[Len(part) - 1] = "x"
    /\ part[Len(part)] = "x"

\* One part of --only that passes the checks of parseStatusRanges.
PartAccepted(part) ==
    /\ ~(Len(part) < 3 \/ ~HasSuffixXX(part))
    /\ Atoi(part[1]).ok

\* The status codes one accepted part adds: base*100 + i for i in 0..99.
PartCodes(part) ==
    { Atoi(part[1]).val * 100 + i : i \in 0..99 }

\* parseStatusRanges: nil for the empty flag, else the set of codes mapped to
\* true (possibly empty).
parseStatusRanges(only) ==
    IF only = EmptyString
    THEN [isNil |-> TRUE, codes |-> {}]
    ELSE [isNil |-> FALSE,
          codes |-> UNION { PartCodes(only[j]) :
                              j \in { q \in 1..Len(only) : PartAccepted(only[q]) } }]

\* ---------------------------------------------------------------- state
VARIABLES
    variant,      \* which of the three programs runs
    n,            \* len(urls)
    rate,         \* requestsPerSecond (-d)
    only,         \* --only, split into parts (classify)
    exit,         \* "running", "exit0", "panic" (run-time panic), "fatal" (runtime throw)
    tickBuf,      \* ticks buffered in ticker.C (capacity 1)
    sinceAdmit,   \* ticker periods since the last admission, saturating at Period
    dPc,          \* processURLs goroutine
    idx,          \* position of the range loop in urls
    sem,          \* len(semaphore)
    wg,           \* WaitGroup counter
    pPc,          \* Prober goroutines
    outputChan,   \* buffered contents of outputChan
    chanClosed,   \* outputChan is closed
    stopClosed,   \* stopChan is closed
    sigBuf,       \* signals buffered in sigChan (capacity 1)
    signals,      \* interrupts delivered so far
    cPc,          \* collector goroutine
    cItem,        \* the outcome the collector holds
    wPc,          \* completion-waiting goroutine; "done" = close(done) executed
    liveURLs,     \* []string of basic / signal
    results,      \* map[int][]string of classify
    mPc,          \* main
    iterLeft,     \* keys main's range over results has still to produce
    filteredURLs, \* filteredURLs of classify's main
    files,        \* the files written: name -> contents
    admitted,     \* history: endpoints in the order their Probers were started
    sent,         \* history: endpoints whose outcome was put on outputChan
    insertOrder,  \* history: endpoints in the order they were inserted in the bucket
    bucketAtRead, \* history: endpoints in the bucket when main left its select
    headResult,   \* history: endpoint -> what its http.Head returned
    ticks         \* history: ticks the ticker emitted, counted up to len(urls) + 1

vars ==
    << variant, n, rate, only, exit, tickBuf, sinceAdmit, dPc, idx, sem,
       wg, pPc, outputChan, chanClosed, stopClosed, sigBuf, signals,
       cPc, cItem, wPc, liveURLs, results, mPc, iterLeft, filteredURLs, files,
       admitted, sent, insertOrder, bucketAtRead, headResult, ticks >>

\* ---------------------------------------------------------------- helpers
Variants == {"basic", "signal", "classify"}

SignalAware == variant \in {"signal", "classify"}

\* time.Second / time.Duration(requestsPerSecond), the ticker's period, is
\* the unit of model time.
Period == 1

\* cap(semaphore) = requestsPerSecond: a slot is free.
SemHasRoomOffByOne == sem <= rate
SemHasRoom == sem < rate

\* cap(outputChan) = len(urls)
ChanCapShort == n - 1
ChanCap == n

\* The next position of `for _, url := range urls`.
NextIndexSkipping(i) == i + 2
NextIndex(i) == i + 1

\* Whether checkURL sends an outcome for a response with status code s
\* (s = ErrTransport: err != nil, checkURL returns before sending).
Emits(v, s) ==
    IF s = ErrTransport
    THEN FALSE
    ELSE IF v = "classify" THEN TRUE ELSE s = StatusOK

\* The keys present in the map `results`.
Keys(m) == { s \in StatusCodes : m[s] # <<>> }

\* statusRanges[status] of a (non-nil) map: a missing key reads as false.
StatusSelectedAll(ranges, status) == TRUE
StatusSelected(ranges, status) == status \in ranges.codes

\* strconv-style rendering of a one-digit class number (%d of status/100).
Itoa(d) ==
    CASE d = 0 -> "0" [] d = 1 -> "1" [] d = 2 -> "2" [] d = 3 -> "3"
      [] d = 4 -> "4" [] d = 5 -> "5" [] d = 6 -> "6" [] d = 7 -> "7"
      [] d = 8 -> "8" [] OTHER -> "9"

\* File names, as sequences of string pieces.
LiveFile == << "live_urls.txt" >>
FilteredFile == << "status", ".txt" >>
RangeFile(status) == << "status", "_", Itoa(status \div 100), "xx.txt" >>

\* os.Create + write + Flush: the file `name` now holds exactly `contents`.
WriteFile(fs, name, contents) ==
    [ f \in (DOMAIN fs) \cup {name} |-> IF f = name THEN contents ELSE fs[f] ]

\* The endpoints of a sequence of endpoints.
Range(s) == { s[j] : j \in 1..Len(s) }

\* The endpoints currently in the aggregated bucket.
Bucket ==
    IF variant = "classify"
    THEN UNION { Range(results[s]) : s \in StatusCodes }
    ELSE Range(liveURLs)

Started(i) == pPc[i] # "idle"
Finished(i) == pPc[i] \in {"release", "fin"}
HoldsSlot(i) == pPc[i] \in {"head", "release"}

\* ---------------------------------------------------------------- Init
Init ==
    /\ variant \in Variants
    /\ n \in 1..(IF variant = "basic" THEN MaxUrls ELSE MaxUrlsSignal)
    /\ rate \in MinRate..MaxRate
    /\ only \in (IF variant = "classify" THEN OnlyOptions ELSE {EmptyString})
    /\ exit = "running"
    /\ tickBuf = 0
    /\ sinceAdmit = 0
    /\ dPc = "start"
    /\ idx = 1
    /\ sem = 0
    /\ wg = 0
    /\ pPc = [i \in Url |-> "idle"]
    /\ outputChan = <<>>
    /\ chanClosed = FALSE
    /\ stopClosed = FALSE
    /\ sigBuf = 0
    /\ signals = 0
    /\ cPc = IF variant = "basic" THEN "none" ELSE "recv"
    /\ cItem = [url |-> 0, status |-> ErrTransport]
    /\ wPc = IF variant = "basic" THEN "none" ELSE "recv"
    /\ liveURLs = <<>>
    /\ results = [s \in StatusCodes |-> <<>>]
    /\ mPc = IF variant = "basic" THEN "range" ELSE "select"
    /\ iterLeft = {}
    /\ filteredURLs = <<>>
    /\ files = [f \in {} |-> <<>>]
    /\ admitted = <<>>
    /\ sent = {}
    /\ insertOrder = <<>>
    /\ bucketAtRead = {}
    /\ headResult = [i \in {} |-> ErrTransport]
    /\ ticks = 0

\* ---------------------------------------------------------------- time
Running == exit = "running"

\* The ticker exists from time.NewTicker to the deferred ticker.Stop().
TickerActive == dPc \in {"select", "acquire", "wait"}

\* The dispatch loop can take its next step right now.  A goroutine that can
\* run does so before the clock advances (its reaction time is below the
\* clock's resolution).
DispatcherCanStep ==
    \/ dPc = "select" /\ tickBuf > 0
    \/ dPc = "acquire" /\ SemHasRoom

\* ticker.C has capacity 1: a tick that finds it full is dropped.
TickerSendBatching(buf) == buf + 1
TickerSend(buf) == IF buf < 1 THEN buf + 1 ELSE buf

\* One ticker period passes and the ticker sends on ticker.C.
Tick ==
    /\ Running
    /\ TickerActive
    /\ ~DispatcherCanStep
    /\ tickBuf' = TickerSend(tickBuf)
    /\ sinceAdmit' = IF sinceAdmit < Period THEN sinceAdmit + 1 ELSE sinceAdmit
    /\ ticks' = IF ticks < n + 1 THEN ticks + 1 ELSE ticks
    /\ UNCHANGED << variant, n, rate, only, exit, dPc, idx, sem, wg, pPc,
                    outputChan, chanClosed, stopClosed, sigBuf, signals, cPc,
                    cItem, wPc, liveURLs, results, mPc, iterLeft, filteredURLs,
                    files, admitted, sent, insertOrder, bucketAtRead,
                    headResult >>

\* ---------------------------------------------------------------- processURLs
\* make(chan struct{}, requestsPerSecond) panics for a negative size and
\* time.Second / time.Duration(0) panics with a division by zero.
DispatcherStart ==
    /\ Running
    /\ dPc = "start"
    /\ IF rate <= 0
       THEN /\ exit' = "panic"
            /\ dPc' = dPc
       ELSE /\ exit' = exit
            /\ dPc' = "select"
    /\ UNCHANGED << variant, n, rate, only, tickBuf, sinceAdmit, idx, sem,
                    wg, pPc, outputChan, chanClosed, stopClosed, sigBuf,
                    signals, cPc, cItem, wPc, liveURLs, results, mPc, iterLeft,
                    filteredURLs, files, admitted, sent, insertOrder, bucketAtRead,
                    headResult, ticks >>

\* case <-stopChan: return   (the deferred ticker.Stop() runs; no wg.Wait())
SelectStop ==
    /\ Running
    /\ dPc = "select"
    /\ stopClosed
    /\ dPc' = "returned"
    /\ UNCHANGED << variant, n, rate, only, exit, tickBuf, sinceAdmit, idx,
                    sem, wg, pPc, outputChan, chanClosed, stopClosed,
                    sigBuf, signals, cPc, cItem, wPc, liveURLs, results, mPc,
                    iterLeft, filteredURLs, files, admitted, sent, insertOrder, bucketAtRead,
                    headResult, ticks >>

\* case <-ticker.C:   (basic: the plain receive <-ticker.C)
SelectTick ==
    /\ Running
    /\ dPc = "select"
    /\ tickBuf > 0
    /\ tickBuf' = tickBuf - 1
    /\ dPc' = "acquire"
    /\ UNCHANGED << variant, n, rate, only, exit, sinceAdmit, idx, sem, wg,
                    pPc, outputChan, chanClosed, stopClosed, sigBuf,
                    signals, cPc, cItem, wPc, liveURLs, results, mPc, iterLeft,
                    filteredURLs, files, admitted, sent, insertOrder, bucketAtRead,
                    headResult, ticks >>

\* semaphore <- struct{}{}; wg.Add(1); go func(u string) {...}(url); then the
\* range loop moves on, to wg.Wait() after the last endpoint.
Acquire ==
    /\ Running
    /\ dPc = "acquire"
    /\ SemHasRoom
    /\ sem' = sem + 1
    /\ wg' = wg + 1
    /\ pPc' = [pPc EXCEPT ![idx] = "head"]
    /\ admitted' = Append(admitted, idx)
    /\ sinceAdmit' = 0
    /\ idx' = NextIndex(idx)
    /\ dPc' = IF NextIndex(idx) > n THEN "wait" ELSE "select"
    /\ UNCHANGED << variant, n, rate, only, exit, tickBuf,
                    outputChan, chanClosed, stopClosed, sigBuf, signals, cPc,
                    cItem, wPc, liveURLs, results, mPc, iterLeft, filteredURLs,
                    files, sent, insertOrder, bucketAtRead,
                    headResult, ticks >>

\* wg.Wait() returns once the counter is zero; processURLs returns.
WgWait ==
    /\ Running
    /\ dPc = "wait"
    /\ wg = 0
    /\ dPc' = "returned"
    /\ UNCHANGED << variant, n, rate, only, exit, tickBuf, sinceAdmit, idx,
                    sem, wg, pPc, outputChan, chanClosed, stopClosed,
                    sigBuf, signals, cPc, cItem, wPc, liveURLs, results, mPc,
                    iterLeft, filteredURLs, files, admitted, sent, insertOrder, bucketAtRead,
                    headResult, ticks >>

\* close(outputChan) after processURLs returned (signal-aware variants).
CloseOutputMissing ==
    /\ Running
    /\ SignalAware
    /\ dPc = "returned"
    /\ chanClosed' = chanClosed
    /\ dPc' = "done"
    /\ UNCHANGED << variant, n, rate, only, exit, tickBuf, sinceAdmit, idx,
                    sem, wg, pPc, outputChan, stopClosed, sigBuf, signals,
                    cPc, cItem, wPc, liveURLs, results, mPc, iterLeft,
                    filteredURLs, files, admitted, sent, insertOrder, bucketAtRead,
                    headResult, ticks >>

CloseOutput ==
    /\ Running
    /\ SignalAware
    /\ dPc = "returned"
    /\ chanClosed' = TRUE
    /\ dPc' = "done"
    /\ UNCHANGED << variant, n, rate, only, exit, tickBuf, sinceAdmit, idx,
                    sem, wg, pPc, outputChan, stopClosed, sigBuf, signals,
                    cPc, cItem, wPc, liveURLs, results, mPc, iterLeft,
                    filteredURLs, files, admitted, sent, insertOrder, bucketAtRead,
                    headResult, ticks >>

\* ---------------------------------------------------------------- checkURL
\* Whether checkURL, run with the flag -v = verboseFlag, reaches its send for
\* the response o: with -v a transport error is printed and checkURL returns,
\* without -v it returns silently; a response is printed with -v and then
\* sent when its status is reported.
Sends(v, verboseFlag, o) ==
    IF verboseFlag
    THEN IF o = ErrTransport THEN FALSE ELSE Emits(v, o)
    ELSE Emits(v, o)

\* The WaitGroup counter after the deferred wg.Done() of checkURL.
WgDoneMissing(w) == w
WgDone(w) == w - 1

\* checkURL from http.Head(url) to its return: a transport error or a status
\* that is not reported ends it; otherwise outputChan <- outcome, which
\* panics on a closed channel and needs room in the buffer of an open one.
\* On return the deferred wg.Done() runs.  The flag -v is fixed for a run and
\* changes no state, so each Prober may read either value of it.
Probe(i, o, verboseFlag) ==
    /\ Running
    /\ pPc[i] = "head"
    /\ Sends(variant, verboseFlag, o) => (chanClosed \/ Len(outputChan) < ChanCap)
    /\ headResult' = [j \in (DOMAIN headResult) \cup {i} |->
                         IF j = i THEN o ELSE headResult[j]]
    /\ IF Sends(variant, verboseFlag, o) /\ chanClosed
       THEN /\ exit' = "panic"
            /\ UNCHANGED << pPc, outputChan, sent, wg >>
       ELSE /\ exit' = exit
            /\ wg' = WgDone(wg)
            /\ outputChan' = IF Sends(variant, verboseFlag, o)
                             THEN Append(outputChan, [url |-> i, status |-> o])
                             ELSE outputChan
            /\ sent' = IF Sends(variant, verboseFlag, o) THEN sent \cup {i} ELSE sent
            /\ pPc' = [pPc EXCEPT ![i] = "release"]
    /\ UNCHANGED << variant, n, rate, only, tickBuf, sinceAdmit, dPc, idx,
                    sem, chanClosed, stopClosed, sigBuf, signals, cPc, cItem,
                    wPc, liveURLs, results, mPc, iterLeft, filteredURLs, files,
                    admitted, insertOrder, bucketAtRead, ticks >>

\* defer func() { <-semaphore }() of the Prober goroutine
Release(i) ==
    /\ Running
    /\ pPc[i] = "release"
    /\ sem' = sem - 1
    /\ pPc' = [pPc EXCEPT ![i] = "fin"]
    /\ UNCHANGED << variant, n, rate, only, exit, tickBuf, sinceAdmit, dPc,
                    idx, wg, outputChan, chanClosed, stopClosed, sigBuf,
                    signals, cPc, cItem, wPc, liveURLs, results, mPc, iterLeft,
                    filteredURLs, files, admitted, sent, insertOrder, bucketAtRead,
                    headResult, ticks >>

\* ---------------------------------------------------------------- collector
NoItem == [url |-> 0, status |-> ErrTransport]

\* for url := range outputChan: receive the next outcome, or leave the loop
\* when the channel is closed and drained.
CollectorRecv ==
    /\ Running
    /\ cPc = "recv"
    /\ outputChan # <<>> \/ chanClosed
    /\ IF outputChan # <<>>
       THEN /\ cItem' = Head(outputChan)
            /\ outputChan' = Tail(outputChan)
            /\ cPc' = "insert"
       ELSE /\ cItem' = cItem
            /\ outputChan' = outputChan
            /\ cPc' = "end"
    /\ UNCHANGED << variant, n, rate, only, exit, tickBuf, sinceAdmit, dPc,
                    idx, sem, wg, pPc, chanClosed, stopClosed, sigBuf,
                    signals, wPc, liveURLs, results, mPc, iterLeft, filteredURLs,
                    files, admitted, sent, insertOrder, bucketAtRead,
                    headResult, ticks >>

\* The bucket after the insertion of outcome `item`.
InsertLive(l, item) == Append(l, item.url)
InsertResult(m, item) == [m EXCEPT ![item.status] = Append(@, item.url)]

\* mu.Lock(); append; mu.Unlock().  An entry created in `results` while main
\* ranges over the map may be produced by that iteration or skipped.
CollectorInsert ==
    /\ Running
    /\ cPc = "insert"
    /\ IF variant = "classify"
       THEN /\ results' = InsertResult(results, cItem)
            /\ liveURLs' = liveURLs
       ELSE /\ liveURLs' = InsertLive(liveURLs, cItem)
            /\ results' = results
    /\ IF variant = "classify" /\ mPc = "save" /\ results[cItem.status] = <<>>
       THEN iterLeft' \in {iterLeft, iterLeft \cup {cItem.status}}
       ELSE iterLeft' = iterLeft
    /\ insertOrder' = Append(insertOrder, cItem.url)
    /\ cItem' = NoItem
    /\ cPc' = "recv"
    /\ UNCHANGED << variant, n, rate, only, exit, tickBuf, sinceAdmit, dPc,
                    idx, sem, wg, pPc, outputChan, chanClosed, stopClosed,
                    sigBuf, signals, wPc, mPc, filteredURLs, files, admitted, sent,
                    bucketAtRead,
                    headResult, ticks >>

\* ---------------------------------------------------------------- waiter
\* for range outputChan {}; close(done): every value received is discarded.
WaiterRecv ==
    /\ Running
    /\ wPc = "recv"
    /\ outputChan # <<>> \/ chanClosed
    /\ IF outputChan # <<>>
       THEN /\ outputChan' = Tail(outputChan)
            /\ wPc' = wPc
       ELSE /\ outputChan' = outputChan
            /\ wPc' = "done"
    /\ UNCHANGED << variant, n, rate, only, exit, tickBuf, sinceAdmit, dPc,
                    idx, sem, wg, pPc, chanClosed, stopClosed, sigBuf,
                    signals, cPc, cItem, liveURLs, results, mPc, iterLeft,
                    filteredURLs, files, admitted, sent, insertOrder, bucketAtRead,
                    headResult, ticks >>

\* ---------------------------------------------------------------- signals
\* The operating system delivers SIGINT/SIGTERM; signal.Notify sends it on
\* sigChan (capacity 1) without blocking, so it is dropped when sigChan is full.
Interrupt ==
    /\ Running
    /\ SignalAware
    /\ signals < MaxSignals
    /\ signals' = signals + 1
    /\ sigBuf' = 1
    /\ UNCHANGED << variant, n, rate, only, exit, tickBuf, sinceAdmit, dPc,
                    idx, sem, wg, pPc, outputChan, chanClosed, stopClosed,
                    cPc, cItem, wPc, liveURLs, results, mPc, iterLeft,
                    filteredURLs, files, admitted, sent, insertOrder, bucketAtRead,
                    headResult, ticks >>

\* ---------------------------------------------------------------- main
\* main leaves its select and goes on to save; in classify the range over
\* `results` starts with the keys present.
MainStaysInSelect ==
    /\ mPc' = "select"
    /\ iterLeft' = iterLeft
    /\ bucketAtRead' = bucketAtRead

MainGoesToSave ==
    /\ mPc' = "save"
    /\ iterLeft' = IF variant = "classify" THEN Keys(results) ELSE {}
    /\ bucketAtRead' = Bucket

\* case <-sigChan: close(stopChan)
MainRecvSignal ==
    /\ Running
    /\ mPc = "select"
    /\ sigBuf > 0
    /\ sigBuf' = sigBuf - 1
    /\ stopClosed' = TRUE
    /\ MainGoesToSave
    /\ UNCHANGED << variant, n, rate, only, exit, tickBuf, sinceAdmit, dPc,
                    idx, sem, wg, pPc, outputChan, chanClosed, signals,
                    cPc, cItem, wPc, liveURLs, results, filteredURLs, files,
                    admitted, sent, insertOrder,
                    headResult, ticks >>

\* case <-done: (normal completion)
MainRecvDone ==
    /\ Running
    /\ mPc = "select"
    /\ wPc = "done"
    /\ MainGoesToSave
    /\ UNCHANGED << variant, n, rate, only, exit, tickBuf, sinceAdmit, dPc,
                    idx, sem, wg, pPc, outputChan, chanClosed, stopClosed,
                    sigBuf, signals, cPc, cItem, wPc, liveURLs, results,
                    filteredURLs, files, admitted, sent, insertOrder,
                    headResult, ticks >>

\* signal: saveURLs(*outputPtr, liveURLs), the final print, return from main.
\* main reads liveURLs without holding mu.
MainSave ==
    /\ Running
    /\ variant = "signal"
    /\ mPc = "save"
    /\ files' = WriteFile(files, LiveFile, liveURLs)
    /\ exit' = "exit0"
    /\ mPc' = "exited"
    /\ UNCHANGED << variant, n, rate, only, tickBuf, sinceAdmit, dPc, idx,
                    sem, wg, pPc, outputChan, chanClosed, stopClosed,
                    sigBuf, signals, cPc, cItem, wPc, liveURLs, results, iterLeft,
                    filteredURLs, admitted, sent, insertOrder, bucketAtRead,
                    headResult, ticks >>

\* classify: one iteration of `for status, urls := range results`, in either
\* branch of `if statusRanges != nil`.  The map is read without holding mu:
\* while the collector is writing it the runtime may throw "concurrent map
\* iteration and map write".  The iteration order of a map is unspecified.
MainIterStep(k) ==
    /\ Running
    /\ variant = "classify"
    /\ mPc = "save"
    /\ k \in iterLeft
    /\ \/ /\ cPc = "insert"
          /\ exit' = "fatal"
          /\ UNCHANGED << iterLeft, filteredURLs, files >>
       \/ /\ exit' = exit
          /\ iterLeft' = iterLeft \ {k}
          /\ IF ~parseStatusRanges(only).isNil
             THEN /\ filteredURLs' =
                       IF StatusSelected(parseStatusRanges(only), k)
                       THEN filteredURLs \o results[k]
                       ELSE filteredURLs
                  /\ files' = files
             ELSE /\ filteredURLs' = filteredURLs
                  /\ files' = WriteFile(files, RangeFile(k), results[k])
    /\ UNCHANGED << variant, n, rate, only, tickBuf, sinceAdmit, dPc, idx,
                    sem, wg, pPc, outputChan, chanClosed, stopClosed,
                    sigBuf, signals, cPc, cItem, wPc, liveURLs, results, mPc,
                    admitted, sent, insertOrder, bucketAtRead,
                    headResult, ticks >>

\* classify: the range loop is over; with a filter saveURLs(*outputPtr+".txt",
\* filteredURLs); then main returns.
MainIterEnd ==
    /\ Running
    /\ variant = "classify"
    /\ mPc = "save"
    /\ iterLeft = {}
    /\ files' = IF ~parseStatusRanges(only).isNil
                THEN WriteFile(files, FilteredFile, filteredURLs)
                ELSE files
    /\ exit' = "exit0"
    /\ mPc' = "exited"
    /\ UNCHANGED << variant, n, rate, only, tickBuf, sinceAdmit, dPc, idx,
                    sem, wg, pPc, outputChan, chanClosed, stopClosed,
                    sigBuf, signals, cPc, cItem, wPc, liveURLs, results, iterLeft,
                    filteredURLs, admitted, sent, insertOrder, bucketAtRead,
                    headResult, ticks >>

\* basic: `for url := range outputChan { liveURLs = append(liveURLs, url) }`.
\* Nothing closes outputChan before this loop; were it closed, the loop would
\* end and the close(outputChan) that follows it would panic (close of closed
\* channel).  The code after the loop (lines 127-151) is reached in no other way.
BasicMainRange ==
    /\ Running
    /\ variant = "basic"
    /\ mPc = "range"
    /\ outputChan # <<>> \/ chanClosed
    /\ IF outputChan # <<>>
       THEN /\ liveURLs' = Append(liveURLs, Head(outputChan).url)
            /\ insertOrder' = Append(insertOrder, Head(outputChan).url)
            /\ outputChan' = Tail(outputChan)
            /\ exit' = exit
       ELSE /\ exit' = "panic"
            /\ UNCHANGED << liveURLs, insertOrder, outputChan >>
    /\ UNCHANGED << variant, n, rate, only, tickBuf, sinceAdmit, dPc, idx,
                    sem, wg, pPc, chanClosed, stopClosed, sigBuf, signals,
                    cPc, cItem, wPc, results, mPc, iterLeft, filteredURLs, files,
                    admitted, sent, bucketAtRead,
                    headResult, ticks >>

\* basic: processURLs has returned, every Prober goroutine has ended and main
\* is blocked receiving from the empty, open outputChan: no goroutine can run
\* and the Go runtime ends the program ("all goroutines are asleep - deadlock!").
BasicDeadlock ==
    /\ Running
    /\ variant = "basic"
    /\ dPc = "returned"
    /\ \A i \in Url : pPc[i] \in {"idle", "fin"}
    /\ mPc = "range"
    /\ outputChan = <<>>
    /\ ~chanClosed
    /\ exit' = "fatal"
    /\ UNCHANGED << variant, n, rate, only, tickBuf, sinceAdmit, dPc, idx,
                    sem, wg, pPc, outputChan, chanClosed, stopClosed,
                    sigBuf, signals, cPc, cItem, wPc, liveURLs, results, mPc,
                    iterLeft, filteredURLs, files, admitted, sent, insertOrder, bucketAtRead,
                    headResult, ticks >>

\* ---------------------------------------------------------------- Next
Probers ==
    \E i \in Url :
        \/ \E o \in Outcomes, verboseFlag \in BOOLEAN : Probe(i, o, verboseFlag)
        \/ Release(i)

MainIter == \E k \in StatusCodes : MainIterStep(k)

Next ==
    \/ Tick
    \/ DispatcherStart
    \/ SelectStop
    \/ SelectTick
    \/ Acquire
    \/ WgWait
    \/ CloseOutput
    \/ Probers
    \/ CollectorRecv
    \/ CollectorInsert
    \/ WaiterRecv
    \/ Interrupt
    \/ MainRecvSignal
    \/ MainRecvDone
    \/ MainSave
    \/ MainIter
    \/ MainIterEnd
    \/ BasicMainRange
    \/ BasicDeadlock

Spec == Init /\ [][Next]_vars

\* ---------------------------------------------------------------- basic, fair
\* The basic program alone, with every goroutine scheduled fairly, time
\* passing, and every HEAD request returning.
InitBasic == Init /\ variant = "basic"

NextBasic ==
    \/ Tick
    \/ DispatcherStart
    \/ SelectTick
    \/ Acquire
    \/ WgWait
    \/ Probers
    \/ BasicMainRange
    \/ BasicDeadlock

FairBasic ==
    /\ WF_vars(Tick)
    /\ WF_vars(DispatcherStart)
    /\ WF_vars(SelectTick)
    /\ WF_vars(Acquire)
    /\ WF_vars(WgWait)
    /\ \A i \in Url : WF_vars(\E o \in Outcomes, verboseFlag \in BOOLEAN :
                                    Probe(i, o, verboseFlag))
    /\ \A i \in Url : WF_vars(Release(i))
    /\ WF_vars(BasicMainRange)
    /\ WF_vars(BasicDeadlock)

FairSpecBasic == InitBasic /\ [][NextBasic]_vars /\ FairBasic

\* ---------------------------------------------------------------- normal path, fair
\* The two signal-aware programs when no signal is delivered, with every
\* goroutine scheduled fairly, time passing, and every HEAD request returning.
InitNormal == Init /\ SignalAware

NextNormal ==
    \/ Tick
    \/ DispatcherStart
    \/ SelectTick
    \/ Acquire
    \/ WgWait
    \/ CloseOutput
    \/ Probers
    \/ CollectorRecv
    \/ CollectorInsert
    \/ WaiterRecv
    \/ MainRecvDone
    \/ MainSave
    \/ MainIter
    \/ MainIterEnd

FairNormal ==
    /\ WF_vars(Tick)
    /\ WF_vars(DispatcherStart)
    /\ WF_vars(SelectTick)
    /\ WF_vars(Acquire)
    /\ WF_vars(WgWait)
    /\ WF_vars(CloseOutput)
    /\ \A i \in Url : WF_vars(\E o \in Outcomes, verboseFlag \in BOOLEAN :
                                    Probe(i, o, verboseFlag))
    /\ \A i \in Url : WF_vars(Release(i))
    /\ WF_vars(CollectorRecv)
    /\ WF_vars(CollectorInsert)
    /\ WF_vars(WaiterRecv)
    /\ WF_vars(MainRecvDone)
    /\ WF_vars(MainSave)
    /\ WF_vars(MainIter)
    /\ WF_vars(MainIterEnd)

FairSpecNormal == InitNormal /\ [][NextNormal]_vars /\ FairNormal

\* ---------------------------------------------------------------- claims
\* The number of positions of the bucket that hold endpoint i.
RECURSIVE Count(_, _)
Count(i, seq) ==
    IF seq = <<>> THEN 0
    ELSE (IF Head(seq) = i THEN 1 ELSE 0) + Count(i, Tail(seq))

RECURSIVE SumOver(_, _)
SumOver(S, i) ==
    IF S = {} THEN 0
    ELSE LET s == CHOOSE x \in S : TRUE
         IN  Count(i, results[s]) + SumOver(S \ {s}, i)

Occurrences(i) ==
    IF variant = "classify" THEN SumOver(StatusCodes, i) ELSE Count(i, liveURLs)

SlotHolders == { i \in Url : HoldsSlot(i) }

\* C1: for every rate R >= 1 the Probers that were started and have not yet
\* released their semaphore slot number at most R, the semaphore's capacity.
C1_ConcurrencyBound ==
    rate >= 1 => Cardinality(SlotHolders) <= rate

\* C1 witness: the semaphore is full with two Probers in flight and the
\* dispatch loop waits for a slot with a further endpoint.
C1_Witness ==
    /\ rate = 2
    /\ Cardinality(SlotHolders) = 2
    /\ dPc = "acquire"

\* C2: once stopChan is closed, no further Prober is started.
C2_NoAdmissionAfterCancel ==
    [][stopClosed => admitted' = admitted]_vars

\* C3: processURLs has returned (and outputChan is closed) only when every
\* started Prober has finished.
C3_DrainBeforeEnd ==
    dPc \in {"returned", "done"} => \A i \in Url : Started(i) => Finished(i)

\* C4: in the signal-aware programs every outcome a Prober put on outputChan
\* is exactly once in the aggregated result main saves.  (The bucket only
\* grows and the process has ended, so what main read is part of the bucket
\* tested here.)
C4_NoOutcomeLost ==
    (SignalAware /\ exit = "exit0") => \A i \in sent : Occurrences(i) = 1

\* C5: Probers are started in input order and the started endpoints are a
\* prefix of the input list, whatever the order of completion.
C5_AdmissionInInputOrder ==
    /\ \A j \in 1..Len(admitted) : admitted[j] = j
    /\ { i \in Url : Started(i) } = 1..Len(admitted)

\* C5 witness: the second endpoint's Prober has finished while the first
\* endpoint's Prober is still in flight.
C5_Witness ==
    /\ Len(admitted) >= 2
    /\ pPc[1] = "head"
    /\ pPc[2] = "fin"

\* C6: two successive admissions are at least one ticker period apart.
C6_RatePacing ==
    [][(admitted # <<>> /\ Len(admitted') > Len(admitted)) => sinceAdmit >= Period]_vars

\* C7: the basic program, given a valid rate, eventually leaves its collecting
\* loop, writes the output file and ends normally.
C7_BasicRunWritesOutput ==
    (variant = "basic" /\ rate >= 1) => <>(exit = "exit0" /\ LiveFile \in DOMAIN files)

\* The endpoints in the files written.
WrittenEndpoints == UNION { Range(files[f]) : f \in DOMAIN files }

\* C8: after an interrupt (valid rate) the run does not crash, and when it has
\* ended the files hold every endpoint that was in the bucket when main
\* received the interrupt.
C8_InterruptSavesAndExitsZero ==
    (stopClosed /\ rate >= 1) =>
        /\ exit \notin {"panic", "fatal"}
        /\ exit = "exit0" => bucketAtRead \subseteq WrittenEndpoints

\* C9: classify without a filter: after the save, every endpoint aggregated
\* (before main began to save) under status code s is in the file of the
\* class of s.
C9_ClassFilesComplete ==
    (variant = "classify" /\ parseStatusRanges(only).isNil /\ exit = "exit0") =>
        \A s \in StatusCodes : \A u \in Range(results[s]) \cap bucketAtRead :
            /\ RangeFile(s) \in DOMAIN files
            /\ u \in Range(files[RangeFile(s)])

\* The status code endpoint u was aggregated under.
StatusOf(u) == CHOOSE s \in StatusCodes : u \in Range(results[s])

IndexOf(u, seq) == CHOOSE j \in 1..Len(seq) : seq[j] = u

\* The filtered save is complete.
FilteredSaveDone ==
    /\ variant = "classify"
    /\ ~parseStatusRanges(only).isNil
    /\ exit = "exit0"

\* Exactly the file *outputPtr+".txt" is written; it holds only aggregated
\* endpoints of a selected status, none twice, and every such endpoint that
\* was aggregated before main began to save.
FilteredFileContents ==
    /\ DOMAIN files = {FilteredFile}
    /\ \A u \in Range(files[FilteredFile]) :
          /\ u \in Bucket
          /\ StatusOf(u) \in parseStatusRanges(only).codes
          /\ Count(u, files[FilteredFile]) = 1
    /\ \A u \in bucketAtRead :
          StatusOf(u) \in parseStatusRanges(only).codes
              => u \in Range(files[FilteredFile])

AllProbesFailed ==
    \A i \in 1..n : i \in DOMAIN headResult /\ headResult[i] = ErrTransport

\* C11: in the programs that do not classify (basic, signal) every endpoint
\* in the result list or in a written file is one whose HEAD request returned
\* status 200, and when every probe failed at transport level the output is
\* empty and the run has not ended in a panic or a fatal error.
C11_OnlyStatusOKInOutput ==
    variant \in {"basic", "signal"} =>
        /\ \A u \in Range(liveURLs) \cup WrittenEndpoints :
              u \in DOMAIN headResult /\ headResult[u] = StatusOK
        /\ AllProbesFailed =>
              /\ liveURLs = <<>>
              /\ WrittenEndpoints = {}
              /\ exit \notin {"panic", "fatal"}

\* C12: with a rate of zero or less no Prober is ever started, the dispatch
\* loop is never entered, and the run ends neither in a panic or a fatal
\* error nor as a successful run (it ends in a reported configuration error).
C12_InvalidRateIsConfigError ==
    rate <= 0 =>
        /\ admitted = <<>>
        /\ dPc = "start"
        /\ exit \notin {"panic", "fatal", "exit0"}

\* The dispatch loop is blocked: in its select with no tick buffered, or in
\* the send on the full semaphore.
DispatcherBlocked ==
    \/ dPc = "select" /\ tickBuf = 0
    \/ dPc = "acquire" /\ ~SemHasRoom

\* C13: whenever stopChan is closed while the dispatch loop is blocked waiting
\* for a rate permit or for a semaphore slot, the loop can leave on account
\* of the cancellation alone (its `case <-stopChan` can be taken), without a
\* Prober releasing a slot first.
C13_NoMissedWakeup ==
    (Running /\ stopClosed /\ DispatcherBlocked) => ENABLED SelectStop

\* C14: while main reads the bucket to save it, the collector holds no
\* outcome it has still to insert and the bucket is what it was when main
\* began to read (nothing has been inserted since).
C14_BucketFrozenAtSave ==
    (Running /\ mPc = "save") =>
        /\ cPc # "insert"
        /\ Bucket = bucketAtRead

\* C15: the semaphore holds exactly one slot per Prober that was started and
\* has not yet released (each releases once, none twice), the WaitGroup
\* counts exactly the Probers that have not yet signalled Done, whatever the
\* HEAD request returned; so once every started Prober has finished the
\* semaphore is empty, the WaitGroup is at zero and as many Probers have
\* finished as were started.
C15_SlotAndDoneExactlyOnce ==
    /\ sem = Cardinality(SlotHolders)
    /\ wg = Cardinality({ i \in Url : pPc[i] = "head" })
    /\ (\A i \in Url : Started(i) => pPc[i] = "fin") =>
          /\ sem = 0
          /\ wg = 0
          /\ Cardinality({ i \in Url : Started(i) })
               = Cardinality({ i \in Url : Finished(i) })
          /\ DOMAIN headResult = { i \in Url : Started(i) }

\* C15 witness: three Probers were started and have released their slots,
\* one after a 200, one after a 404 and one after a transport error.
C15_Witness ==
    /\ Len(admitted) = 3
    /\ \A i \in 1..3 : pPc[i] = "fin"
    /\ DOMAIN headResult = 1..3
    /\ headResult[1] = StatusOK
    /\ headResult[2] = 404
    /\ headResult[3] = ErrTransport
    /\ sem = 0
    /\ wg = 0

\* C16: outputChan never holds more outcomes than its capacity len(urls), no
\* endpoint has two outcomes buffered, and there is room in the buffer for
\* the outcome of every Prober still in checkURL, so a send on the open
\* channel completes at once.
C16_SendNeverBlocks ==
    /\ Len(outputChan) <= ChanCap
    /\ \A p, q \in 1..Len(outputChan) :
          p # q => outputChan[p].url # outputChan[q].url
    /\ Len(outputChan) + Cardinality({ i \in Url : pPc[i] = "head" }) <= ChanCap

\* C16 witness: classify, the buffer holds the outcomes of all the endpoints
\* (two), none received yet.
C16_Witness ==
    /\ variant = "classify"
    /\ n = 2
    /\ Len(outputChan) = ChanCap
    /\ ~chanClosed

\* C17: once stopChan is closed it stays closed, and main never again is in
\* its select or receives from sigChan, the only place where stopChan is
\* closed: a further interrupt cannot close it a second time.
C17_StopClosedAtMostOnce ==
    [][stopClosed => (stopClosed' /\ sigBuf' >= sigBuf /\ mPc' # "select")]_vars

\* C17 witness: a second interrupt was delivered after stopChan was closed;
\* it sits unread in sigChan while the run goes on.
C17_Witness ==
    /\ Running
    /\ stopClosed
    /\ signals = 2
    /\ sigBuf = 1

\* The rate permits the dispatch loop has received from ticker.C: one per
\* Prober started, and one more when it is about to acquire a slot.
PermitsConsumed == Len(admitted) + (IF dPc = "acquire" THEN 1 ELSE 0)

\* C18: at most one permit is pending in ticker.C, exactly one permit has
\* been consumed for every Prober started, and the permits consumed and
\* pending never exceed the ticks the ticker has emitted: the admissions
\* never outnumber the ticks.
C18_PermitsNotBatched ==
    /\ tickBuf <= 1
    /\ PermitsConsumed + tickBuf <= ticks
    /\ Len(admitted) <= ticks

\* C18 witness: the loop waits for a slot while the first Prober is in
\* flight; two ticks have come meanwhile, one is pending and one was dropped.
C18_Witness ==
    /\ Len(admitted) = 1
    /\ dPc = "acquire"
    /\ tickBuf = 1
    /\ ticks = 4

\* main has left its select by way of `done`: every endpoint was admitted,
\* processURLs has returned, outputChan is closed, `done` is closed and main
\* has gone on to save.
NormalPathAtSave ==
    /\ Len(admitted) = n
    /\ dPc = "done"
    /\ chanClosed
    /\ wPc = "done"
    /\ mPc \in {"save", "exited"}

\* C19: in a signal-aware program with a valid rate, when no interrupt
\* arrives, every HEAD request returns and scheduling is fair, eventually
\* every endpoint has been admitted, processURLs has returned, outputChan and
\* `done` are closed and main has gone on to save.
C19_NormalPathReachesSave ==
    rate >= 1 => <>NormalPathAtSave

\* C19 witness: classify, both endpoints probed, no signal delivered, main
\* has just left its select on `done`.
C19_Witness ==
    /\ variant = "classify"
    /\ n = 2
    /\ signals = 0
    /\ Running
    /\ NormalPathAtSave
    /\ mPc = "save"
    /\ sent = {1, 2}

\* C20: in the signal-aware programs no Prober sends on outputChan after it
\* was closed.  (With a valid rate the send on the closed channel is the only
\* statement of these programs that panics.)
C20_NoSendOnClosedChannel ==
    (SignalAware /\ rate >= 1) => exit # "panic"

====
